---- MODULE Spec2Model ----
\* A model of lvm_spec_pressure/server.py: SerialConnection (start_client,
\* readall, send_to_serial) and SpecPressureServer._client_connected_cb, one
\* coroutine per accepted TCP client, all sharing one asyncio.Lock and one
\* SerialConnection.  One action is one run of a coroutine from an await that
\* resumes it to the next await that suspends it (asyncio runs a coroutine
\* without interruption between two awaits).
EXTENDS Integers, Sequences, FiniteSets, TLC

\* ------------------------------------------------------------------ bounds

\* Number of TCP clients that connect during a run.
NumClients == 3

\* Longest device output (in events) tried against readall.
MaxLen == 3

Clients == 1..NumClients

\* self.wserial / self.rserial before the first start_client (server.py:47-48).
None == 0

\* A serial handle is named after the handler whose start_client opened it:
\* every handler opens at most one (it returns after one transaction).
Handles == Clients

VARIABLES
    pc,         \* pc[h]: the await at which handler h is suspended
    lock,       \* self._lock: [locked, waiters, woken]
    wserial,    \* self.serial.wserial: None or the handle stored last
    rserial,    \* self.serial.rserial
    hstate,     \* hstate[k]: "none" | "open" | "closed", the serial handle k
    rd,         \* rd[h]: the reader object handler h passed to readall
    sent,       \* sent[h]: bytes written to client h's socket
    wclosed,    \* wclosed[h]: writer.close() was called on client h's socket
    result,     \* result[h]: how handler h returned
    fault,      \* fault[h]: the failure injected into handler h's own I/O
    after,      \* after[h]: h's request was read after another handler had failed
    got,        \* got[h]: the reply send_to_serial returned to handler h
    writes,     \* writes[h]: number of writer.write calls on client h's socket
    waited,     \* the handlers that had to queue for the lock
    fired,      \* the cleanup's `self._lock.release()` (server.py:258) has run
    server,     \* self.server: "none" | "listening" | "closed"
    stopCalled, \* stop() has been called
    timeout,    \* self.timeout
    delimiter,  \* self.delimiter
    script,     \* the device output given to a stand-alone readall
    rpc,        \* "idle" | "ready" | "done": the stand-alone readall
    ret         \* what the stand-alone send_to_serial read step returned

bridgeVars == <<pc, lock, wserial, rserial, hstate, rd, sent, wclosed, result,
                fault, after, got, writes, waited, fired>>
srvVars == <<server, stopCalled>>
readVars == <<script, rpc, ret>>
confVars == <<timeout, delimiter>>
vars == <<pc, lock, wserial, rserial, hstate, rd, sent, wclosed, result,
          fault, after, got, writes, waited, fired, server, stopCalled,
          timeout, delimiter, script, rpc, ret>>

\* ------------------------------------------------- SerialConnection.readall

\* The configured delimiter: Python's None, or a str (a sequence of characters).
NoDelimiter == [none |-> TRUE, str |-> <<>>]
Str(s) == [none |-> FALSE, str |-> s]

\* html.escape(c) for one character (quote=True), server.py:73.
EscapeChar(c) ==
    CASE c = "&"  -> <<"&", "a", "m", "p", ";">>
      [] c = "<"  -> <<"&", "l", "t", ";">>
      [] c = ">"  -> <<"&", "g", "t", ";">>
      [] c = "\"" -> <<"&", "q", "u", "o", "t", ";">>
      [] c = "'"  -> <<"&", "#", "x", "2", "7", ";">>
      [] OTHER    -> <<c>>

RECURSIVE HtmlEscape(_)
HtmlEscape(s) ==
    IF s = <<>> THEN <<>> ELSE EscapeChar(Head(s)) \o HtmlEscape(Tail(s))

\* ord(c) of the ASCII characters the model uses.
Ord(c) ==
    CASE c = "\r" -> 13 [] c = "\n" -> 10 [] c = "\"" -> 34 [] c = "#" -> 35
      [] c = "&" -> 38 [] c = "'" -> 39 [] c = "2" -> 50 [] c = "7" -> 55
      [] c = ";" -> 59 [] c = "<" -> 60 [] c = ">" -> 62 [] c = "A" -> 65
      [] c = "a" -> 97 [] c = "g" -> 103 [] c = "l" -> 108 [] c = "m" -> 109
      [] c = "o" -> 111 [] c = "p" -> 112 [] c = "q" -> 113 [] c = "t" -> 116
      [] c = "u" -> 117 [] c = "x" -> 120

\* str.encode() (UTF-8) of an ASCII string: one byte per character.
Encode(s) == [i \in 1..Len(s) |-> Ord(s[i])]

\* The separator readuntil is given, server.py:73.
Separator(d) == Encode(HtmlEscape(d))

\* What the device does next: stay silent for `gap`, then deliver one byte,
\* or end the stream (EOF), or fail (an I/O error).  After the last event of a
\* script the device stays silent for ever.
ByteEv(g, b) == [gap |-> g, kind |-> "byte", byte |-> b]
EofEv(g) == [gap |-> g, kind |-> "eof", byte |-> 0]
ErrEv(g) == [gap |-> g, kind |-> "err", byte |-> 0]

EndsWith(buf, sep) ==
    /\ Len(buf) >= Len(sep)
    /\ SubSeq(buf, Len(buf) - Len(sep) + 1, Len(buf)) = sep

\* Mutant of ReadExactlyLoop: a failed read returns the bytes accumulated so
\* far instead of b"".
RECURSIVE ReadExactlyLoopPartial(_, _, _)
ReadExactlyLoopPartial(s, t, reply) ==
    IF s = <<>> \/ Head(s).gap > t
    THEN [reply |-> reply, why |-> "timeout", exc |-> "none"]
    ELSE IF Head(s).kind = "eof"
    THEN [reply |-> reply, why |-> "incomplete", exc |-> "none"]
    ELSE IF Head(s).kind = "err"
    THEN [reply |-> reply, why |-> "error", exc |-> "none"]
    ELSE ReadExactlyLoopPartial(Tail(s), t, Append(reply, Head(s).byte))

\* Mutant of ReadExactlyLoop: one deadline for the whole read instead of a
\* timeout armed anew for every byte.
RECURSIVE ReadExactlyLoopDeadline(_, _, _)
ReadExactlyLoopDeadline(s, t, reply) ==
    IF s = <<>> \/ Head(s).gap > t
    THEN [reply |-> reply, why |-> "timeout", exc |-> "none"]
    ELSE IF Head(s).kind = "eof"
    THEN [reply |-> <<>>, why |-> "incomplete", exc |-> "none"]
    ELSE IF Head(s).kind = "err"
    THEN [reply |-> <<>>, why |-> "error", exc |-> "none"]
    ELSE ReadExactlyLoopDeadline(Tail(s), t - Head(s).gap,
                                 Append(reply, Head(s).byte))

\* No-delimiter mode, server.py:84-95: wait_for(readexactly(1), timeout) in a
\* loop, the timeout armed anew by every call.
RECURSIVE ReadExactlyLoop(_, _, _)
ReadExactlyLoop(s, t, reply) ==
    IF s = <<>> \/ Head(s).gap > t
    THEN \* asyncio.TimeoutError, server.py:88-89
         [reply |-> reply, why |-> "timeout", exc |-> "none"]
    ELSE IF Head(s).kind = "eof"
    THEN \* asyncio.IncompleteReadError, server.py:90-92
         [reply |-> <<>>, why |-> "incomplete", exc |-> "none"]
    ELSE IF Head(s).kind = "err"
    THEN \* BaseException, server.py:93-95
         [reply |-> <<>>, why |-> "error", exc |-> "none"]
    ELSE ReadExactlyLoop(Tail(s), t, Append(reply, Head(s).byte))

\* Delimiter mode, server.py:71-81: wait_for(readuntil(sep), timeout), one
\* deadline for the whole read; `elapsed` is the time since the read began.
RECURSIVE ReadUntil(_, _, _, _, _)
ReadUntil(s, sep, t, elapsed, buf) ==
    IF s = <<>> \/ elapsed + Head(s).gap > t
    THEN \* asyncio.TimeoutError is a BaseException, server.py:79-81
         [reply |-> <<>>, why |-> "timeout", exc |-> "none"]
    ELSE IF Head(s).kind = "eof"
    THEN \* server.py:76-78
         [reply |-> <<>>, why |-> "incomplete", exc |-> "none"]
    ELSE IF Head(s).kind = "err"
    THEN \* server.py:79-81
         [reply |-> <<>>, why |-> "error", exc |-> "none"]
    ELSE LET buf2 == Append(buf, Head(s).byte) IN
         IF EndsWith(buf2, sep)
         THEN [reply |-> buf2, why |-> "delimiter", exc |-> "none"]
         ELSE ReadUntil(Tail(s), sep, t, elapsed + Head(s).gap, buf2)

\* SerialConnection.readall, server.py:62-95.
readall(s, t, d) ==
    IF ~d.none /\ d.str # <<>>
    THEN ReadUntil(s, Separator(d.str), t, 0, <<>>)
    ELSE ReadExactlyLoop(s, t, <<>>)

\* The read step of send_to_serial, server.py:112-128: the reply it returns
\* and whether it raised to its caller.  Both except branches keep reply = b"".
SendToSerialRead(s, t, d) ==
    LET r == readall(s, t, d) IN
    [reply  |-> IF r.exc = "none" THEN r.reply ELSE <<>>,
     why    |-> r.why,
     raised |-> FALSE]

\* ------------------------------------------------------------ asyncio.Lock

\* Mutant of LockRelease: the lock is unlocked but no waiter is woken.
LockReleaseNoWake(l) ==
    [locked |-> FALSE, waiters |-> l.waiters, woken |-> l.woken]

\* Lock.release() of a locked lock: unlock and wake the first waiter.  The
\* woken waiter stays in the queue until it runs (server.py:233 on leaving the
\* `async with`, server.py:258).
LockRelease(l) ==
    [locked  |-> FALSE,
     waiters |-> l.waiters,
     woken   |-> IF l.waiters # <<>> THEN l.woken \cup {Head(l.waiters)}
                 ELSE l.woken]

\* Leaving `async with self._lock` (server.py:233): Lock.__aexit__ calls
\* release(), whoever holds the lock; on an unlocked lock release() raises
\* RuntimeError, which `except BaseException` (server.py:247) catches.
ExitWith(l) == IF l.locked THEN LockRelease(l) ELSE l

\* The handler's cleanup, server.py:257-258.
Finally(l) == IF l.locked THEN LockRelease(l) ELSE l

\* A waiter's future was resolved: it leaves the queue and takes the lock.
LockWake(l, h) ==
    [locked  |-> TRUE,
     waiters |-> SelectSeq(l.waiters, LAMBDA w : w # h),
     woken   |-> l.woken \ {h}]

\* ------------------------------------------------------- the serial device

\* The request bytes of client h (one chunk of reader.read(1024)).
Request(h) == <<48 + h>>

\* The device answers the request written to handle k, ended by a carriage
\* return; or it stays silent; or the read fails.
Good(k) == <<ByteEv(0, 48 + k), ByteEv(0, 13)>>
Silent == <<>>
Broken == <<ErrEv(0)>>
DeviceScripts(k) == {Good(k), Silent, Broken}

\* A reader whose transport was closed has been fed EOF.
ClosedScript == <<EofEv(0)>>

\* ------------------------------------------- SpecPressureServer, one client

\* Mutant of Return: the handler returns without closing the client's writer.
ReturnNoClose(h, l, res) ==
    /\ lock' = Finally(l)
    /\ fired' = (fired \/ l.locked)
    /\ wclosed' = wclosed
    /\ result' = [result EXCEPT ![h] = res]
    /\ pc' = [pc EXCEPT ![h] = "done"]

\* Mutant of Return: the handler returns with the lock as it was when the
\* step began, released neither by the `async with` nor by the cleanup.
ReturnKeepsLock(h, l, res) ==
    /\ lock' = lock
    /\ fired' = fired
    /\ wclosed' = [wclosed EXCEPT ![h] = TRUE]
    /\ result' = [result EXCEPT ![h] = res]
    /\ pc' = [pc EXCEPT ![h] = "done"]

\* Mutant of Written: the reply is written to the client twice.
WrittenTwice(old, reply) == old \o reply \o reply

\* writer.write(reply), server.py:241: the bytes are appended to what the
\* client's socket was given before.
Written(old, reply) == old \o reply

\* try/finally and the `return` after it, server.py:250-260: close the
\* writer, release the lock if it is locked, return.
Return(h, l, res) ==
    /\ lock' = Finally(l)
    /\ fired' = (fired \/ l.locked)
    /\ wclosed' = [wclosed EXCEPT ![h] = TRUE]
    /\ result' = [result EXCEPT ![h] = res]
    /\ pc' = [pc EXCEPT ![h] = "done"]

\* send_to_serial up to its first suspension, server.py:105 and 50-56:
\* start_client closes the stored handle and waits for it, then opens.
\* Closing a closed handle does not suspend.
StartClient(h, l) ==
    /\ lock' = l
    /\ IF wserial # None /\ hstate[wserial] = "open"
       THEN /\ hstate' = [hstate EXCEPT ![wserial] = "closed"]
            /\ pc' = [pc EXCEPT ![h] = "sc_wait_closed"]
       ELSE /\ hstate' = hstate
            /\ pc' = [pc EXCEPT ![h] = "sc_open"]

\* A client is accepted; the handler runs to reader.read (server.py:220-223).
Connect(h) ==
    /\ server = "listening"
    /\ pc[h] = "idle"
    /\ pc' = [pc EXCEPT ![h] = "reading"]
    /\ UNCHANGED <<lock, wserial, rserial, hstate, rd, sent, wclosed, result,
                   fault, after, confVars, readVars, srvVars,
                   got, writes, waited, fired>>

\* reader.read returns b"" or the stream is at EOF (server.py:224-227).
ReadEOF(h) ==
    /\ pc[h] = "reading"
    /\ wclosed' = [wclosed EXCEPT ![h] = TRUE]
    /\ pc' = [pc EXCEPT ![h] = "eof_wait_closed"]
    /\ UNCHANGED <<lock, wserial, rserial, hstate, rd, sent, result, fault,
                   after, confVars, readVars, srvVars,
                   got, writes, waited, fired>>

\* writer.wait_closed() is over: return through finally (server.py:228-229,
\* 250-258).
EofReturn(h) ==
    /\ pc[h] = "eof_wait_closed"
    /\ Return(h, lock, "eof")
    /\ UNCHANGED <<wserial, rserial, hstate, rd, sent, fault, after, confVars,
                   readVars, srvVars,
                   got, writes, waited>>

\* reader.read raises (ConnectionResetError or another), server.py:244-258.
ReadError(h) ==
    /\ pc[h] = "reading"
    /\ fault' = [fault EXCEPT ![h] = "reset"]
    /\ Return(h, lock, "exc")
    /\ UNCHANGED <<wserial, rserial, hstate, rd, sent, after, confVars,
                   readVars, srvVars,
                   got, writes, waited>>

\* reader.read returns a request; `async with self._lock` (server.py:231-234):
\* Lock.acquire takes a free lock with no waiters at once, else queues.
ReadData(h) ==
    /\ pc[h] = "reading"
    /\ after' = [after EXCEPT ![h] = \E g \in Clients \ {h} : result[g] = "exc"]
    /\ IF ~lock.locked /\ lock.waiters = <<>>
       THEN StartClient(h, [lock EXCEPT !.locked = TRUE])
       ELSE /\ lock' = [lock EXCEPT !.waiters = Append(@, h)]
            /\ pc' = [pc EXCEPT ![h] = "acquire"]
            /\ hstate' = hstate
    /\ waited' = IF ~lock.locked /\ lock.waiters = <<>> THEN waited
                 ELSE waited \cup {h}
    /\ UNCHANGED <<wserial, rserial, rd, sent, wclosed, result, fault,
                   confVars, readVars, srvVars,
                   got, writes, fired>>

\* The waiter is woken and enters the block (server.py:233-234).
LockAcquired(h) ==
    /\ pc[h] = "acquire"
    /\ h \in lock.woken
    /\ StartClient(h, LockWake(lock, h))
    /\ UNCHANGED <<wserial, rserial, rd, sent, wclosed, result, fault, after,
                   confVars, readVars, srvVars,
                   got, writes, waited, fired>>

\* wserial.wait_closed() of the old handle is over (server.py:54).
StartClientClosed(h) ==
    /\ pc[h] = "sc_wait_closed"
    /\ pc' = [pc EXCEPT ![h] = "sc_open"]
    /\ UNCHANGED <<lock, wserial, rserial, hstate, rd, sent, wclosed, result,
                   fault, after, confVars, readVars, srvVars,
                   got, writes, waited, fired>>

\* Mutant of OpenFail: the failed open is swallowed and the transaction ends
\* as one with an empty reply.
OpenFailSwallowed(h) ==
    /\ pc[h] = "sc_open"
    /\ fault' = [fault EXCEPT ![h] = "open"]
    /\ Return(h, ExitWith(lock), "ok")
    /\ UNCHANGED <<wserial, rserial, hstate, rd, sent, after, confVars,
                   readVars, srvVars,
                   got, writes, waited>>

\* open_serial_connection fails: the exception leaves send_to_serial and the
\* `async with`, is logged, and the handler returns (server.py:56, 233,
\* 247-260).
OpenFail(h) ==
    /\ pc[h] = "sc_open"
    /\ fault' = [fault EXCEPT ![h] = "open"]
    /\ Return(h, ExitWith(lock), "exc")
    /\ UNCHANGED <<wserial, rserial, hstate, rd, sent, after, confVars,
                   readVars, srvVars,
                   got, writes, waited>>

\* open_serial_connection returns: the handles are stored, the request is
\* written to the new handle, drain() suspends (server.py:56-60, 106-109).
OpenOk(h) ==
    /\ pc[h] = "sc_open"
    /\ hstate' = [hstate EXCEPT ![h] = "open"]
    /\ wserial' = h
    /\ rserial' = h
    /\ pc' = [pc EXCEPT ![h] = "drain"]
    /\ UNCHANGED <<lock, rd, sent, wclosed, result, fault, after, confVars,
                   readVars, srvVars,
                   got, writes, waited, fired>>

\* drain() raises: write and drain are outside send_to_serial's try, so its
\* finally does not run (server.py:108-109, 233, 247-260).
DrainFail(h) ==
    /\ pc[h] = "drain"
    /\ fault' = [fault EXCEPT ![h] = "drain"]
    /\ Return(h, ExitWith(lock), "exc")
    /\ UNCHANGED <<wserial, rserial, hstate, rd, sent, after, confVars,
                   readVars, srvVars,
                   got, writes, waited>>

\* drain() returns; readall is called with the reader stored now
\* (server.py:114).
DrainOk(h) ==
    /\ pc[h] = "drain"
    /\ rd' = [rd EXCEPT ![h] = rserial]
    /\ pc' = [pc EXCEPT ![h] = "readall"]
    /\ UNCHANGED <<lock, wserial, rserial, hstate, sent, wclosed, result,
                   fault, after, confVars, readVars, srvVars,
                   got, writes, waited, fired>>

\* readall returns; send_to_serial's finally closes the handle stored now
\* and returns the reply; a non-empty reply is written to the client and
\* drain() suspends inside the `async with`, an empty one leaves the block
\* and the handler returns (server.py:114-128, 239-242, 250-260).
ReadAllDone(h) ==
    /\ pc[h] = "readall"
    /\ \E s \in (IF hstate[rd[h]] = "open" THEN DeviceScripts(rd[h])
                 ELSE {ClosedScript}) :
         LET r == SendToSerialRead(s, timeout, delimiter) IN
         /\ fault' = [fault EXCEPT ![h] =
                IF s \in {Silent, Broken} THEN "device" ELSE @]
         /\ hstate' = IF wserial # None
                      THEN [hstate EXCEPT ![wserial] = "closed"]
                      ELSE hstate
         /\ got' = [got EXCEPT ![h] = r.reply]
         /\ IF r.reply # <<>>
            THEN /\ sent' = [sent EXCEPT ![h] = Written(@, r.reply)]
                 /\ writes' = [writes EXCEPT ![h] = @ + 1]
                 /\ pc' = [pc EXCEPT ![h] = "reply_drain"]
                 /\ UNCHANGED <<lock, wclosed, result, fired>>
            ELSE /\ Return(h, ExitWith(lock), "ok")
                 /\ UNCHANGED <<sent, writes>>
    /\ UNCHANGED <<wserial, rserial, rd, after, confVars, readVars, srvVars,
                   waited>>

\* writer.drain() returns: the block is left and the handler returns
\* (server.py:242, 250-260).
ReplyDrainOk(h) ==
    /\ pc[h] = "reply_drain"
    /\ Return(h, ExitWith(lock), "ok")
    /\ UNCHANGED <<wserial, rserial, hstate, rd, sent, fault, after, confVars,
                   readVars, srvVars,
                   got, writes, waited>>

\* writer.drain() raises ConnectionResetError (server.py:242-260).
ReplyDrainFail(h) ==
    /\ pc[h] = "reply_drain"
    /\ fault' = [fault EXCEPT ![h] = "client"]
    /\ Return(h, ExitWith(lock), "exc")
    /\ UNCHANGED <<wserial, rserial, hstate, rd, sent, after, confVars,
                   readVars, srvVars,
                   got, writes, waited>>

\* SpecPressureServer.__init__ and SerialConnection.__init__
\* (server.py:47-48, 184-189).
Init ==
    /\ pc = [h \in Clients |-> "idle"]
    /\ lock = [locked |-> FALSE, waiters |-> <<>>, woken |-> {}]
    /\ wserial = None
    /\ rserial = None
    /\ hstate = [k \in Handles |-> "none"]
    /\ rd = [h \in Clients |-> None]
    /\ sent = [h \in Clients |-> <<>>]
    /\ wclosed = [h \in Clients |-> FALSE]
    /\ result = [h \in Clients |-> "none"]
    /\ fault = [h \in Clients |-> "none"]
    /\ after = [h \in Clients |-> FALSE]
    /\ got = [h \in Clients |-> <<>>]
    /\ writes = [h \in Clients |-> 0]
    /\ waited = {}
    /\ fired = FALSE
    /\ server = "none"
    /\ stopCalled = FALSE
    /\ timeout = 1
    /\ delimiter \in {NoDelimiter, Str(<<"\r">>)}
    /\ script = <<>>
    /\ rpc = "idle"
    /\ ret = [reply |-> <<>>, why |-> "none", raised |-> FALSE]

\* SpecPressureServer.start, server.py:195-204 (called once per server,
\* __main__.py:43-45).
Start ==
    /\ server = "none"
    /\ server' = "listening"
    /\ UNCHANGED <<bridgeVars, stopCalled, confVars, readVars>>

\* Mutant of Stop: stopping also ends the handlers that are running.
StopCancelsHandlers ==
    /\ stopCalled' = TRUE
    /\ server' = IF server = "none" THEN "none" ELSE "closed"
    /\ pc' = [h \in Clients |-> IF pc[h] = "idle" THEN "idle" ELSE "done"]
    /\ UNCHANGED <<lock, wserial, rserial, hstate, rd, sent, wclosed, result,
                   fault, after, got, writes, waited, fired, confVars,
                   readVars>>

\* SpecPressureServer.stop, server.py:206-211: nothing without a server;
\* else the listener is closed (closing it again changes nothing).  No
\* handler is touched.
Stop ==
    /\ stopCalled' = TRUE
    /\ server' = IF server = "none" THEN "none" ELSE "closed"
    /\ UNCHANGED <<bridgeVars, confVars, readVars>>

\* The steps handler h takes by itself once its client has sent a request or
\* closed: every await it is suspended at completes or fails.
HandlerStep(h) ==
    \/ EofReturn(h)
    \/ LockAcquired(h)
    \/ StartClientClosed(h)
    \/ OpenFail(h) \/ OpenOk(h)
    \/ DrainFail(h) \/ DrainOk(h)
    \/ ReadAllDone(h)
    \/ ReplyDrainOk(h) \/ ReplyDrainFail(h)

Next ==
    \/ Start
    \/ \E h \in Clients :
        \/ Connect(h)
        \/ ReadEOF(h)
        \/ EofReturn(h)
        \/ ReadError(h)
        \/ ReadData(h)
        \/ LockAcquired(h)
        \/ StartClientClosed(h)
        \/ OpenFail(h)
        \/ OpenOk(h)
        \/ DrainFail(h)
        \/ DrainOk(h)
        \/ ReadAllDone(h)
        \/ ReplyDrainOk(h)
        \/ ReplyDrainFail(h)

\* The started server and its clients.  stop() only closes the listener, so
\* it is left to SpecStop.
Spec == Init /\ [][Next]_vars

\* The same with stop() called at any moment.
NextStop ==
    \/ Next
    \/ Stop

SpecStop == Init /\ [][NextStop]_vars

\* The event loop runs every coroutine that can run, and every serial open,
\* write and read and every client write completes or fails; a client may
\* stay silent for ever.
Fairness == \A h \in Clients : WF_vars(HandlerStep(h))

SpecFair == Init /\ [][Next]_vars /\ Fairness

\* ------------------------------------- readall on its own, any device output

\* Durations are in ticks; gaps are even and timeouts odd, so that no byte
\* arrives exactly at a deadline (which of the two wins then is the event
\* loop's choice).
Gaps == {0, 2}
Timeouts == {1, 3}
DeviceBytes == {13, 60, 65}
Events ==
    {ByteEv(g, b) : g \in Gaps, b \in DeviceBytes}
        \cup {EofEv(g) : g \in Gaps} \cup {ErrEv(g) : g \in Gaps}
\* The device sends the characters "&lt;" at once, then stays silent or fails.
EscapedScripts ==
    {<<ByteEv(0, 38), ByteEv(0, 108), ByteEv(0, 116), ByteEv(0, 59)>>,
     <<ByteEv(0, 38), ByteEv(0, 108), ByteEv(0, 116), ByteEv(0, 59), ErrEv(0)>>}
Scripts == UNION {[1..n -> Events] : n \in 0..MaxLen} \cup EscapedScripts
Delimiters ==
    {NoDelimiter, Str(<<>>), Str(<<"\r">>), Str(<<"<">>), Str(<<"A", "\r">>)}

InitRead ==
    /\ pc = [h \in Clients |-> "idle"]
    /\ lock = [locked |-> FALSE, waiters |-> <<>>, woken |-> {}]
    /\ wserial = None
    /\ rserial = None
    /\ hstate = [k \in Handles |-> "none"]
    /\ rd = [h \in Clients |-> None]
    /\ sent = [h \in Clients |-> <<>>]
    /\ wclosed = [h \in Clients |-> FALSE]
    /\ result = [h \in Clients |-> "none"]
    /\ fault = [h \in Clients |-> "none"]
    /\ after = [h \in Clients |-> FALSE]
    /\ got = [h \in Clients |-> <<>>]
    /\ writes = [h \in Clients |-> 0]
    /\ waited = {}
    /\ fired = FALSE
    /\ server = "none"
    /\ stopCalled = FALSE
    /\ timeout \in Timeouts
    /\ delimiter \in Delimiters
    /\ script \in Scripts
    /\ rpc = "ready"
    /\ ret = [reply |-> <<>>, why |-> "none", raised |-> FALSE]

\* send_to_serial reads the reply of a device that behaves as `script` says
\* (server.py:112-128).
ReadAllCall ==
    /\ rpc = "ready"
    /\ ret' = SendToSerialRead(script, timeout, delimiter)
    /\ rpc' = "done"
    /\ UNCHANGED <<bridgeVars, srvVars, confVars, script>>

NextRead == ReadAllCall

SpecRead == InitRead /\ [][NextRead]_vars

\* ------------------------------------------------------------------ claims

\* Handler h is inside SerialConnection.send_to_serial (server.py:105-128).
InSerial(h) == pc[h] \in {"sc_wait_closed", "sc_open", "drain", "readall"}

OpenHandles == {k \in Handles : hstate[k] = "open"}

\* C1: at most one handler is inside send_to_serial (connect, write, read) at
\* any instant, whatever the interleaving of the clients' handlers.
MutualExclusion == Cardinality({h \in Clients : InSerial(h)}) <= 1

\* C2: a handler that completes a transaction without an exception goes back
\* to reading the next request, and its connection stays open.
PerConnectionLoop ==
    [][\A h \in Clients :
          (pc[h] \in {"readall", "reply_drain"} /\ result'[h] = "ok")
              => (pc'[h] = "reading" /\ ~wclosed'[h])]_vars

\* C3: the steps of a handler whose client read was empty (close the writer,
\* then return) leave the lock as they found it.
EmptyReadLeavesLock ==
    [][\A h \in Clients :
          (\/ pc[h] = "reading" /\ pc'[h] = "eof_wait_closed"
           \/ pc[h] = "eof_wait_closed" /\ pc'[h] = "done")
              => lock' = lock]_vars

\* C4: a transaction requested after another client's handler failed with an
\* exception, and whose own I/O does not fail, delivers the device's reply to
\* its client.
FaultIsolation ==
    \A c \in Clients :
        (pc[c] = "done" /\ after[c] /\ fault[c] = "none")
            => sent[c] = Request(c) \o <<13>>

\* C5: in every reachable state at most one serial handle is open.
ReconnectInvariant == Cardinality(OpenHandles) <= 1

\* C7: a handler that is past send_to_serial has no open handle of its own,
\* and no serial handle is open while no transaction is in progress.
HandleClosedAfterTransaction ==
    /\ \A h \in Clients :
           pc[h] \in {"reply_drain", "done"} => hstate[h] # "open"
    /\ (\A h \in Clients : ~InSerial(h)) => OpenHandles = {}

\* C6: when the serial open fails, the handler returns with the error (not
\* with an empty reply), nothing has been written to its client, the lock is
\* unlocked, and the stored serial handles are as before the attempt.
OpenFailureIsLocal ==
    [][\A h \in Clients :
          (pc[h] = "sc_open" /\ fault'[h] = "open")
              => /\ pc'[h] = "done"
                 /\ result'[h] = "exc"
                 /\ sent'[h] = <<>>
                 /\ wclosed'[h]
                 /\ ~lock'.locked
                 /\ wserial' = wserial /\ rserial' = rserial
                 /\ hstate' = hstate]_vars

\* C6 witness: after one handler's open failed, a later transaction of
\* another client opened the device again and delivered its reply.
OpenFailureThenSuccess ==
    \E h \in Clients, c \in Clients :
        /\ h # c
        /\ fault[h] = "open" /\ pc[h] = "done"
        /\ after[c] /\ pc[c] = "done" /\ result[c] = "ok"
        /\ hstate[c] = "closed"
        /\ sent[c] = Request(c) \o <<13>>

\* ---- what the device sent, said without the code's read loops

NoDelimiterMode == delimiter.none \/ delimiter.str = <<>>

\* The bytes of the first n events.
BytesOf(s, n) == [i \in 1..n |-> s[i].byte]

\* The time at which event n happens, from the start of the read.
RECURSIVE ArrivalTime(_, _)
ArrivalTime(s, n) == IF n = 0 THEN 0 ELSE ArrivalTime(s, n - 1) + s[n].gap

Least(S) == CHOOSE x \in S : \A y \in S : x <= y

\* The first event that comes after a silence longer than t (past the end:
\* the silence after the last event).
FirstLongGap(s, t) == Least({i \in 1..Len(s) : s[i].gap > t} \cup {Len(s) + 1})

\* The first event that is not a byte (past the end if there is none).
FirstFailure(s) ==
    Least({i \in 1..Len(s) : s[i].kind # "byte"} \cup {Len(s) + 1})

\* The events after which the received bytes end with sep, for the first time.
MatchEnds(s, sep) ==
    {n \in 1..Len(s) : /\ n < FirstFailure(s)
                       /\ EndsWith(BytesOf(s, n), sep)}

\* C8: a read that fails with anything but a timeout gives the empty reply,
\* in both framing modes, also after bytes were accumulated, and
\* send_to_serial returns it without raising.
ReadErrorsAbsorbed ==
    rpc = "done" =>
        /\ ret.why \in {"incomplete", "error"}
               => (ret.reply = <<>> /\ ~ret.raised)
        /\ (/\ NoDelimiterMode
            /\ FirstFailure(script) < FirstLongGap(script, timeout))
               => (ret.why \in {"incomplete", "error"} /\ ret.reply = <<>>)
        /\ (/\ ~NoDelimiterMode
            /\ FirstFailure(script) <= Len(script)
            /\ ArrivalTime(script, FirstFailure(script)) < timeout
            /\ MatchEnds(script, Encode(delimiter.str)) = {}
            /\ MatchEnds(script, Separator(delimiter.str)) = {})
               => (ret.why \in {"incomplete", "error"} /\ ret.reply = <<>>)

\* C8 witness: no delimiter, a byte was accumulated, then the stream ended.
ReadErrorAfterBytes ==
    /\ rpc = "done"
    /\ NoDelimiterMode
    /\ Len(script) >= 2
    /\ script[1].kind = "byte" /\ script[1].gap < timeout
    /\ script[2].kind = "eof" /\ script[2].gap < timeout
    /\ ret.reply = <<>> /\ ~ret.raised

\* C9: with a non-empty delimiter d whose bytes the device sends before the
\* timeout, readall returns the device output up to and including the first
\* occurrence of d.
DelimiterFraming ==
    (/\ rpc = "done"
     /\ ~NoDelimiterMode
     /\ MatchEnds(script, Encode(delimiter.str)) # {}
     /\ ArrivalTime(script, Least(MatchEnds(script, Encode(delimiter.str))))
            < timeout)
        => ret.reply =
               BytesOf(script, Least(MatchEnds(script, Encode(delimiter.str))))

\* C10: with no delimiter readall returns the bytes received before the
\* first silence longer than the timeout, in order, however long the whole
\* read took; a silent device gives the empty reply.
NoDelimiterFraming ==
    (/\ rpc = "done"
     /\ NoDelimiterMode
     /\ FirstLongGap(script, timeout) <= FirstFailure(script))
        => /\ ret.reply = BytesOf(script, FirstLongGap(script, timeout) - 1)
           /\ ret.why = "timeout"
           /\ ~ret.raised

\* C10 witness: two or more bytes were returned although the read took
\* longer than the timeout in total.
SlowSteadyDevice ==
    /\ rpc = "done"
    /\ NoDelimiterMode
    /\ Len(ret.reply) >= 2
    /\ ret.reply = BytesOf(script, Len(ret.reply))
    /\ ArrivalTime(script, Len(ret.reply)) > timeout

\* C11: in delimiter mode, when the deadline (measured from the start of the
\* read) expires before the delimiter has been received and before the read
\* failed, readall gives the empty reply, whatever bytes were received, and
\* nothing is raised.
TimeoutWithoutDelimiter ==
    (/\ rpc = "done"
     /\ ~NoDelimiterMode
     /\ \/ FirstFailure(script) > Len(script)
        \/ ArrivalTime(script, FirstFailure(script)) > timeout
     /\ \A n \in MatchEnds(script, Encode(delimiter.str)) :
            ArrivalTime(script, n) > timeout)
        => (ret.reply = <<>> /\ ret.why = "timeout" /\ ~ret.raised)

\* C12: what a client's socket was given is exactly the reply
\* send_to_serial returned to its handler, written once when it is not
\* empty and not at all when it is.
ReplyPassThrough ==
    \A h \in Clients :
        /\ sent[h] = got[h]
        /\ writes[h] = IF got[h] = <<>> THEN 0 ELSE 1

\* C12 witness: one transaction delivered its reply, another one ended with
\* an empty reply and nothing written.
ReplyAndSilence ==
    \E h \in Clients, g \in Clients :
        /\ pc[h] = "done" /\ got[h] # <<>> /\ sent[h] = got[h] /\ writes[h] = 1
        /\ pc[g] = "done" /\ result[g] = "ok"
        /\ got[g] = <<>> /\ sent[g] = <<>> /\ writes[g] = 0

\* C13: stop() on a server never started changes nothing; stop() on a
\* started one closes the listener and touches no handler; once the listener
\* is closed no handler is started; and a handler accepted before is still
\* able to take its next step.
StopSemantics ==
    /\ [][/\ (server = "none" /\ stopCalled' # stopCalled)
                 => (server' = "none" /\ UNCHANGED bridgeVars)
          /\ (server = "listening" /\ server' = "closed")
                 => UNCHANGED bridgeVars
          /\ server = "closed"
                 => /\ server' = "closed"
                    /\ \A h \in Clients : pc[h] = "idle" => pc'[h] = "idle"
         ]_vars
    /\ [](server = "closed" =>
            \A h \in Clients :
                (pc[h] \notin {"idle", "reading", "acquire", "done"}
                 \/ (pc[h] = "acquire" /\ h \in lock.woken))
                    => ENABLED HandlerStep(h))

\* C13 witness: the listener is closed while one handler is in a
\* transaction, one waits for the lock and one is reading.
StoppedWhileBusy ==
    /\ server = "closed"
    /\ \E h \in Clients, g \in Clients, k \in Clients :
           pc[h] = "readall" /\ pc[g] = "acquire" /\ pc[k] = "reading"

\* C14: a handler that has returned has closed its client's writer, on every
\* path, and it returned normally.
UnconditionalCleanup ==
    \A h \in Clients :
        pc[h] = "done" => (wclosed[h] /\ result[h] \in {"eof", "exc", "ok"})

\* C14 witness: handlers have returned by EOF, by an exception and after a
\* completed transaction.
AllExitPaths ==
    \E h \in Clients, g \in Clients, k \in Clients :
        /\ pc[h] = "done" /\ result[h] = "eof" /\ wclosed[h]
        /\ pc[g] = "done" /\ result[g] = "exc" /\ wclosed[g]
        /\ pc[k] = "done" /\ result[k] = "ok" /\ wclosed[k]

\* C15: the release in the handler's cleanup never runs.
DefensiveReleaseNeverFires == ~fired

\* Handler h is inside the `async with self._lock` block (server.py:233-242).
InBlock(h) == InSerial(h) \/ pc[h] = "reply_drain"

\* C16: the lock is held as long as a handler is inside the block, up to the
\* end of its reply's drain, so no other handler is in a serial transaction
\* while a reply is being written.
LockCoversReply ==
    /\ \A h \in Clients : InBlock(h) => lock.locked
    /\ \A h \in Clients, g \in Clients :
           (pc[h] = "reply_drain" /\ g # h) => ~InSerial(g)

\* C17: under fair scheduling every handler that waits for the lock gets it,
\* and a locked lock is unlocked again.
NoStarvation ==
    /\ \A h \in Clients : (pc[h] = "acquire") ~> (pc[h] # "acquire")
    /\ lock.locked ~> ~lock.locked

\* C17 witness: a handler that had to queue for the lock is in its serial
\* transaction.
WaiterInTransaction == \E h \in waited : InSerial(h)

\* C18: a handler reads from the handle its own start_client opened, and a
\* client is given nothing but the device's reply to its own request.
NoCrossTalk ==
    \A h \in Clients :
        /\ pc[h] = "readall" => rd[h] = h
        /\ sent[h] \in {<<>>, Request(h) \o <<13>>}

\* C19: the handle a handler is draining to or reading from is open.
InFlightHandleStaysOpen ==
    \A h \in Clients :
        /\ pc[h] = "drain" => hstate[h] = "open"
        /\ pc[h] = "readall" => hstate[rd[h]] = "open"

\* C20: when no handler is active the lock is unlocked and nobody waits.
QuiescentLockFree ==
    (\A h \in Clients : pc[h] \in {"idle", "done"})
        => (~lock.locked /\ lock.waiters = <<>> /\ lock.woken = {})

\* C20 witness: all handlers have returned, by EOF, by an exception and after
\* a completed transaction, and the lock is unlocked.
QuiescentAfterAll ==
    /\ \A h \in Clients : pc[h] = "done"
    /\ \E h \in Clients, g \in Clients, k \in Clients :
           result[h] = "eof" /\ result[g] = "exc" /\ result[k] = "ok"
    /\ ~lock.locked

====
